---- MODULE Spec2Model ----
(***************************************************************************)
(* Model of the real-time session coordination layer of ESCAPE2.0          *)
(* (backend/app/websocket/handler.py): the Socket.IO event handlers        *)
(* connect, disconnect, joinSession and playerAction, the two module-level *)
(* registries player_info and active_sessions, and the transport rooms the *)
(* handlers enter and emit to.  A last part models the HTTP endpoints that  *)
(* start and end game sessions (backend/app/api/sessions.py) over the      *)
(* game_sessions table.                                                    *)
(***************************************************************************)
EXTENDS Integers, Sequences, FiniteSets, TLC

(***************************************************************************)
(* Bounds and input sets                                                   *)
(***************************************************************************)
\* number of transport connections (sids) that may ever connect
MaxConn == 2

Sids == 1 .. MaxConn

\* connections of the step-by-step specification of the handlers
MaxAsyncConn == 4

AsyncSids == 1 .. MaxAsyncConn

\* handler runs (joinSession, playerAction, disconnect) the step-by-step
\* specification starts
MaxEvents == 4

\* threads of the pool that run the HTTP endpoints of api/sessions.py
MaxWorkers == 2

Workers == 1 .. MaxWorkers

\* rows the game_sessions table may hold
MaxSessions == 3

\* ids of the rows of table rooms
RoomRows == {1, 2}
\* values of field room_id of a start request (3 is no room)
RoomIdInputs == {1, 2, 3}

\* a key that the inbound payload does not carry
Absent == "<absent>"
\* Python's None (also what dict.get returns for a missing key)
None == "<None>"
\* "no sid" in the to= / skip_sid= argument of an emit
NoSid == 0

\* values of payload field sessionId ("" is the empty identifier)
SessionIdInputs == {"S1", "S2", "", Absent}
\* values of payload field playerName
NameInputs == {"Alice", Absent}
\* values of payload field action
ActionInputs == {"on", "open", "off", "toggle", "", Absent}
\* values of payload field target
TargetInputs == {"forno", "porta"}

(***************************************************************************)
(* State                                                                   *)
(***************************************************************************)
VARIABLES
    conn,             \* sid -> "new" | "open" | "closed": the transport socket
    player_info,      \* handler.py:19, dict sid -> announcement
    active_sessions,  \* handler.py:18, dict session id -> set of sids
    rooms,            \* transport rooms of sio: room name -> set of sids
    outbox,           \* the emits of the latest handler run, in emit order
    last,             \* the latest event: [op, sid, data]
    acted,            \* history: some playerAction has run
    pc,               \* sid -> where its running handler is suspended
    inbox,            \* sid -> the session broadcasts it received, in order
    clock,            \* number of handler runs started so far
    game_sessions,    \* table game_sessions: row id -> [room_id, end_time]
    requests,         \* worker -> where its start_session request stands
    response          \* the latest HTTP response: [path, status_code]

vars == <<conn, player_info, active_sessions, rooms, outbox, last, acted,
          pc, inbox, clock, game_sessions, requests, response>>

\* the variables only the step-by-step specification moves
asyncVars == <<pc, inbox, clock>>

\* the variables of the HTTP endpoints
apiVars == <<game_sessions, requests, response>>

\* the variables of the Socket.IO handlers
wsVars == <<conn, player_info, active_sessions, rooms, outbox, last, acted,
            pc, inbox, clock>>

(***************************************************************************)
(* Helpers: dicts, payloads, transport rooms                               *)
(***************************************************************************)
\* dict.get(key, default) on an inbound payload
Get(data, key, default) == IF data[key] = Absent THEN default ELSE data[key]

\* str() as applied by an f-string
Str(v) == IF v = None THEN "None" ELSE v

\* Python truthiness of a str-or-None value
Truthy(v) == v # None /\ v # ""

NoData ==
    [sessionId |-> Absent, room |-> Absent, playerName |-> Absent,
     action |-> Absent, target |-> Absent]

ActionData(SS, RS, NS, AS, TS) ==
    {[sessionId |-> s, room |-> r, playerName |-> n, action |-> a, target |-> t] :
        s \in SS, r \in RS, n \in NS, a \in AS, t \in TS}

\* the sids in a transport room (room None is every connected socket)
Participants(rms, room) == IF room \in DOMAIN rms THEN rms[room] ELSE {}

\* sio.enter_room(sid, room)
EnterRoom(rms, sid, room) ==
    [r \in DOMAIN rms \cup {room} |->
        Participants(rms, r) \cup (IF r = room THEN {sid} ELSE {})]

\* the transport drops a disconnected sid from every room and deletes the
\* rooms that become empty
LeaveAllRooms(rms, sid) ==
    [r \in {q \in DOMAIN rms : rms[q] \ {sid} # {}} |-> rms[r] \ {sid}]

\* sockets that can still receive a packet
Open(cn) == {s \in DOMAIN cn : cn[s] = "open"}

\* variant of EmitRoom: skip_sid is not honoured
EmitRoomNoSkip(rms, cn, event, data, room, skip) ==
    [event |-> event, data |-> data, room |-> room, to |-> NoSid,
     skip_sid |-> skip,
     audience |-> Participants(rms, room),
     recipients |-> Participants(rms, room) \cap Open(cn)]

\* sio.emit(event, data, room=room, skip_sid=skip)
EmitRoom(rms, cn, event, data, room, skip) ==
    [event |-> event, data |-> data, room |-> room, to |-> NoSid,
     skip_sid |-> skip,
     audience |-> Participants(rms, room) \ {skip},
     recipients |-> (Participants(rms, room) \ {skip}) \cap Open(cn)]

\* variant of EmitTo: the event goes to every connected socket
EmitToEveryone(cn, event, data, sid) ==
    [event |-> event, data |-> data, room |-> None, to |-> NoSid,
     skip_sid |-> NoSid,
     audience |-> Open(cn),
     recipients |-> Open(cn)]

\* sio.emit(event, data, to=sid): the personal room of sid
EmitTo(cn, event, data, sid) ==
    [event |-> event, data |-> data, room |-> Absent, to |-> sid,
     skip_sid |-> NoSid,
     audience |-> {sid},
     recipients |-> {sid} \cap Open(cn)]

\* no handler of the connection is suspended
Idle == [at |-> "idle", data |-> NoData, n |-> 0]

\* a worker that is running no request
NoRequest == [at |-> "idle", room_id |-> None]

\* the HTTP side before any request
InitApi ==
    /\ game_sessions = << >>
    /\ requests = [w \in Workers |-> NoRequest]
    /\ response = [path |-> None, status_code |-> None]

(***************************************************************************)
(* Init                                                                    *)
(***************************************************************************)
Init ==
    /\ conn = [s \in Sids |-> "new"]
    /\ player_info = << >>
    /\ active_sessions = << >>
    /\ rooms = << >>
    /\ outbox = << >>
    /\ last = [op |-> "init", sid |-> NoSid, data |-> NoData]
    /\ acted = FALSE
    /\ pc = [s \in Sids |-> Idle]
    /\ inbox = [s \in Sids |-> << >>]
    /\ clock = 0
    /\ InitApi

(***************************************************************************)
(* connect(sid, environ): logs only; the transport opens the socket and    *)
(* puts it in the room of all connected sockets                            *)
(***************************************************************************)
connect(sid) ==
    /\ conn[sid] = "new"
    /\ conn' = [conn EXCEPT ![sid] = "open"]
    /\ rooms' = EnterRoom(rooms, sid, None)
    /\ outbox' = << >>
    /\ last' = [op |-> "connect", sid |-> sid, data |-> NoData]
    /\ UNCHANGED <<player_info, active_sessions, acted>>

(***************************************************************************)
(* joinSession(sid, data)                                                  *)
(***************************************************************************)
\* variant of initial_state: the window is missing from the snapshot
initial_state_no_window ==
    [objectStates |->
        ("forno" :> "off") @@ ("frigo" :> "off") @@ ("cassetto" :> "chiuso") @@
        ("valvola_gas" :> "chiusa"),
     completed |-> << >>,
     currentPuzzle |-> None]

\* variant of initial_state: the drawer starts open
initial_state_drawer_open ==
    [objectStates |->
        ("forno" :> "off") @@ ("frigo" :> "off") @@ ("cassetto" :> "aperto") @@
        ("valvola_gas" :> "chiusa") @@ ("finestra" :> "chiusa"),
     completed |-> << >>,
     currentPuzzle |-> None]

\* the literal snapshot joinSession sends
initial_state ==
    [objectStates |->
        ("forno" :> "off") @@ ("frigo" :> "off") @@ ("cassetto" :> "chiuso") @@
        ("valvola_gas" :> "chiusa") @@ ("finestra" :> "chiusa"),
     completed |-> << >>,
     currentPuzzle |-> None]

\* variant of Announce: an existing announcement is not overwritten
AnnounceKeepFirst(pi, sid, session_id, room, player_name) ==
    [s \in DOMAIN pi \cup {sid} |->
        IF s \in DOMAIN pi
        THEN pi[s]
        ELSE [sessionId |-> session_id, room |-> room, playerName |-> player_name]]

\* player_info[sid] = {...}
Announce(pi, sid, session_id, room, player_name) ==
    [s \in DOMAIN pi \cup {sid} |->
        IF s = sid
        THEN [sessionId |-> session_id, room |-> room, playerName |-> player_name]
        ELSE pi[s]]

\* if session_id not in active_sessions: ... = set(); ....add(sid)
AddMember(as, session_id, sid) ==
    [k \in DOMAIN as \cup {session_id} |->
        (IF k \in DOMAIN as THEN as[k] ELSE {}) \cup
        (IF k = session_id THEN {sid} ELSE {})]

\* the rooms after the two enter_room calls
JoinRooms(rms, sid, session_id, room) ==
    EnterRoom(EnterRoom(rms, sid, session_id), sid,
              Str(session_id) \o ":" \o Str(room))

\* variant of JoinEmits: the private snapshot is sent first
JoinEmitsStateFirst(rms, cn, sid, session_id, room, player_name) ==
    << EmitTo(cn, "sessionState", initial_state, sid),
       EmitRoom(rms, cn, "playerJoined",
                [playerName |-> player_name, room |-> room], session_id, sid) >>

\* the two emits of joinSession, in the order the handler awaits them
JoinEmits(rms, cn, sid, session_id, room, player_name) ==
    << EmitRoom(rms, cn, "playerJoined",
                [playerName |-> player_name, room |-> room], session_id, sid),
       EmitTo(cn, "sessionState", initial_state, sid) >>

joinSession(sid, data) ==
    LET session_id == Get(data, "sessionId", None)
        room == Get(data, "room", None)
        player_name == Get(data, "playerName", "Guest")
    IN  /\ conn[sid] = "open"
        /\ player_info' = Announce(player_info, sid, session_id, room, player_name)
        /\ active_sessions' = AddMember(active_sessions, session_id, sid)
        /\ rooms' = JoinRooms(rooms, sid, session_id, room)
        /\ outbox' = JoinEmits(rooms', conn, sid, session_id, room, player_name)
        /\ last' = [op |-> "joinSession", sid |-> sid, data |-> data]
        /\ UNCHANGED <<conn, acted>>

(***************************************************************************)
(* playerAction(sid, data)                                                 *)
(***************************************************************************)
\* variant of NewState: the "off" test comes too late to be reached
NewStateOffLost(action) ==
    IF action = "on" THEN "on"
    ELSE IF action = "open" THEN "aperto"
    ELSE "chiuso"

\* the conditional expression of line 98
NewState(action) ==
    IF action = "on" THEN "on"
    ELSE IF action = "open" THEN "aperto"
    ELSE IF action = "off" THEN "off"
    ELSE "chiuso"

\* the two emits of playerAction, in the order the handler awaits them
ActionEmits(rms, cn, sid, session_id, room, player_name, action, target) ==
    << EmitTo(cn, "actionSuccess",
              [message |-> Str(target) \o " " \o Str(action),
               sessionState |-> [objectStates |-> (target :> NewState(action))]],
              sid),
       EmitRoom(rms, cn, "globalStateUpdate",
                [objectStates |-> (target :> NewState(action)),
                 updatedBy |-> player_name, room |-> room],
                session_id, sid) >>

playerAction(sid, data) ==
    LET session_id == Get(data, "sessionId", None)
        room == Get(data, "room", None)
        player_name == Get(data, "playerName", "Guest")
        action == Get(data, "action", None)
        target == Get(data, "target", None)
    IN  /\ conn[sid] = "open"
        /\ outbox' = ActionEmits(rooms, conn, sid, session_id, room,
                                 player_name, action, target)
        /\ last' = [op |-> "playerAction", sid |-> sid, data |-> data]
        /\ acted' = TRUE
        /\ UNCHANGED <<conn, player_info, active_sessions, rooms>>

(***************************************************************************)
(* disconnect(sid): fired by the transport for a socket that went away     *)
(* (and, on a transport double-fire, again for the same sid); the          *)
(* transport drops the sid from its rooms after the handler returns        *)
(***************************************************************************)
\* active_sessions[session_id].discard(sid)
Discard(as, session_id, sid) == [as EXCEPT ![session_id] = @ \ {sid}]

\* variant of Forget: the announcement is left in the registry
ForgetNothing(pi, sid) == pi

\* del player_info[sid]
Forget(pi, sid) == [s \in DOMAIN pi \ {sid} |-> pi[s]]

\* the guard of line 36
HasSession(as, session_id) == Truthy(session_id) /\ session_id \in DOMAIN as

disconnect(sid) ==
    /\ conn[sid] \in {"open", "closed"}
    /\ conn' = [conn EXCEPT ![sid] = "closed"]
    /\ IF sid \in DOMAIN player_info
       THEN LET info == player_info[sid]
                session_id == info.sessionId
                room == info.room
                player_name == info.playerName
            IN  /\ IF HasSession(active_sessions, session_id)
                   THEN /\ active_sessions' = Discard(active_sessions, session_id, sid)
                        /\ outbox' = << EmitRoom(rooms, conn', "playerLeft",
                                                 [playerName |-> player_name,
                                                  room |-> room],
                                                 session_id, NoSid) >>
                   ELSE /\ active_sessions' = active_sessions
                        /\ outbox' = << >>
                /\ player_info' = Forget(player_info, sid)
       ELSE /\ outbox' = << >>
            /\ UNCHANGED <<player_info, active_sessions>>
    /\ rooms' = LeaveAllRooms(rooms, sid)
    /\ last' = [op |-> "disconnect", sid |-> sid, data |-> NoData]
    /\ UNCHANGED acted

(***************************************************************************)
(* Specifications                                                          *)
(***************************************************************************)
\* join payloads of the membership life cycle: two named sessions and a
\* payload without sessionId
JoinPayloads ==
    { [NoData EXCEPT !.sessionId = "S1", !.room = "kitchen", !.playerName = "Alice"],
      [NoData EXCEPT !.sessionId = "S2", !.room = "bagno"],
      [NoData EXCEPT !.room = "kitchen", !.playerName = "Bob"] }

\* action payloads of the membership life cycle
ActionPayloads ==
    ActionData({"S1", "S2", Absent}, {"kitchen"}, {Absent}, {"on", "toggle"}, {"forno"})

Connect == \E sid \in Sids : connect(sid) /\ UNCHANGED <<asyncVars, apiVars>>

Disconnect == \E sid \in Sids : disconnect(sid) /\ UNCHANGED <<asyncVars, apiVars>>

Join ==
    \E sid \in Sids : \E data \in JoinPayloads :
        joinSession(sid, data) /\ UNCHANGED <<asyncVars, apiVars>>

Action ==
    \E sid \in Sids : \E data \in ActionPayloads :
        playerAction(sid, data) /\ UNCHANGED <<asyncVars, apiVars>>

Next == Connect \/ Join \/ Action \/ Disconnect

Spec == Init /\ [][Next]_vars

\* every action payload, on one session
JoinS1 ==
    \E sid \in Sids :
        /\ joinSession(sid, [NoData EXCEPT !.sessionId = "S1", !.room = "kitchen"])
        /\ UNCHANGED <<asyncVars, apiVars>>

ActionAny ==
    \E sid \in Sids :
        \E data \in ActionData(SessionIdInputs, {"kitchen"}, NameInputs,
                               ActionInputs, TargetInputs) :
            playerAction(sid, data) /\ UNCHANGED <<asyncVars, apiVars>>

NextAction == Connect \/ JoinS1 \/ ActionAny \/ Disconnect

SpecAction == Init /\ [][NextAction]_vars

\* actions on elements outside the default snapshot, on one session
ActionOther ==
    \E sid \in Sids :
        \E data \in ActionData({"S1"}, {"kitchen"}, NameInputs,
                               ActionInputs, {"porta", Absent}) :
            playerAction(sid, data) /\ UNCHANGED <<asyncVars, apiVars>>

NextKeys == Connect \/ JoinS1 \/ ActionOther \/ Disconnect

SpecKeys == Init /\ [][NextKeys]_vars

(***************************************************************************)
(* The handlers step by step: a coroutine runs until an await of sio.emit  *)
(* that has a socket to send to suspends it, and other connections'        *)
(* handlers may run before it resumes.  A connection has at most one       *)
(* handler in flight.                                                      *)
(***************************************************************************)
\* the transport appends an emitted broadcast to the stream of each
\* recipient; n is the number of the handler run that emitted it
Deliver(ib, e, n) ==
    [m \in DOMAIN ib |->
        IF m \in e.recipients THEN Append(ib[m], [event |-> e.event, n |-> n])
        ELSE ib[m]]

InitAsync ==
    /\ conn = [s \in AsyncSids |-> "new"]
    /\ player_info = << >>
    /\ active_sessions = << >>
    /\ rooms = << >>
    /\ outbox = << >>
    /\ last = [op |-> "init", sid |-> NoSid, data |-> NoData]
    /\ acted = FALSE
    /\ pc = [s \in AsyncSids |-> Idle]
    /\ inbox = [s \in AsyncSids |-> << >>]
    /\ clock = 0
    /\ InitApi

\* joinSession up to the await of the playerJoined emit (lines 48-71); when
\* nobody else is in the room the handler goes on to the sessionState emit
\* (line 85), after which it has nothing left to do
joinBegin(sid, data) ==
    LET session_id == Get(data, "sessionId", None)
        room == Get(data, "room", None)
        player_name == Get(data, "playerName", "Guest")
    IN  /\ conn[sid] = "open"
        /\ pc[sid] = Idle
        /\ clock < MaxEvents
        /\ clock' = clock + 1
        /\ player_info' = Announce(player_info, sid, session_id, room, player_name)
        /\ active_sessions' = AddMember(active_sessions, session_id, sid)
        /\ rooms' = JoinRooms(rooms, sid, session_id, room)
        /\ LET emits == JoinEmits(rooms', conn, sid, session_id, room, player_name)
           IN  IF emits[1].recipients # {}
               THEN /\ outbox' = << emits[1] >>
                    /\ pc' = [pc EXCEPT ![sid] =
                                 [at |-> "joinSession:85", data |-> data, n |-> clock']]
               ELSE /\ outbox' = emits
                    /\ pc' = pc
        /\ inbox' = Deliver(inbox, outbox'[1], clock')
        /\ last' = [op |-> "joinSession", sid |-> sid, data |-> data]
        /\ UNCHANGED <<conn, acted>>

\* joinSession resumed: the sessionState emit (lines 73-85)
joinEnd(sid) ==
    LET data == pc[sid].data
    IN  /\ pc[sid].at = "joinSession:85"
        /\ outbox' = << JoinEmits(rooms, conn, sid, Get(data, "sessionId", None),
                                  Get(data, "room", None),
                                  Get(data, "playerName", "Guest"))[2] >>
        /\ pc' = [pc EXCEPT ![sid] = Idle]
        /\ last' = [op |-> "joinSession", sid |-> sid, data |-> data]
        /\ UNCHANGED <<conn, player_info, active_sessions, rooms, acted, inbox, clock>>

\* playerAction up to the await of the actionSuccess emit (lines 89-107)
actionBegin(sid, data) ==
    /\ conn[sid] = "open"
    /\ pc[sid] = Idle
    /\ clock < MaxEvents
    /\ clock' = clock + 1
    /\ outbox' = << ActionEmits(rooms, conn, sid, Get(data, "sessionId", None),
                                Get(data, "room", None),
                                Get(data, "playerName", "Guest"),
                                Get(data, "action", None),
                                Get(data, "target", None))[1] >>
    /\ pc' = [pc EXCEPT ![sid] = [at |-> "playerAction:109", data |-> data, n |-> clock']]
    /\ last' = [op |-> "playerAction", sid |-> sid, data |-> data]
    /\ acted' = TRUE
    /\ UNCHANGED <<conn, player_info, active_sessions, rooms, inbox>>

\* playerAction resumed: the globalStateUpdate emit (lines 109-115)
actionEnd(sid) ==
    LET data == pc[sid].data
    IN  /\ pc[sid].at = "playerAction:109"
        /\ outbox' = << ActionEmits(rooms, conn, sid, Get(data, "sessionId", None),
                                    Get(data, "room", None),
                                    Get(data, "playerName", "Guest"),
                                    Get(data, "action", None),
                                    Get(data, "target", None))[2] >>
        /\ inbox' = Deliver(inbox, outbox'[1], pc[sid].n)
        /\ pc' = [pc EXCEPT ![sid] = Idle]
        /\ last' = [op |-> "playerAction", sid |-> sid, data |-> data]
        /\ UNCHANGED <<conn, player_info, active_sessions, rooms, acted, clock>>

\* disconnect up to the await of the playerLeft emit (lines 28-42); when
\* the guards of lines 30 and 36 skip the emit, or no open socket is left
\* in the room, the handler runs to its end
disconnectBegin(sid) ==
    /\ conn[sid] = "open"
    /\ pc[sid] = Idle
    /\ clock < MaxEvents
    /\ clock' = clock + 1
    /\ conn' = [conn EXCEPT ![sid] = "closed"]
    /\ IF sid \in DOMAIN player_info
          /\ HasSession(active_sessions, player_info[sid].sessionId)
       THEN LET info == player_info[sid]
                left == EmitRoom(rooms, conn', "playerLeft",
                                 [playerName |-> info.playerName, room |-> info.room],
                                 info.sessionId, NoSid)
            IN  /\ active_sessions' = Discard(active_sessions, info.sessionId, sid)
                /\ outbox' = << left >>
                /\ inbox' = Deliver(inbox, left, clock')
                /\ IF left.recipients # {}
                   THEN /\ pc' = [pc EXCEPT ![sid] =
                                    [at |-> "disconnect:44", data |-> NoData, n |-> clock']]
                        /\ UNCHANGED <<player_info, rooms>>
                   ELSE /\ player_info' = Forget(player_info, sid)
                        /\ rooms' = LeaveAllRooms(rooms, sid)
                        /\ pc' = pc
       ELSE /\ player_info' = IF sid \in DOMAIN player_info
                              THEN Forget(player_info, sid) ELSE player_info
            /\ rooms' = LeaveAllRooms(rooms, sid)
            /\ outbox' = << >>
            /\ UNCHANGED <<active_sessions, inbox, pc>>
    /\ last' = [op |-> "disconnect", sid |-> sid, data |-> NoData]
    /\ UNCHANGED acted

\* disconnect resumed: del player_info[sid] (line 44), then the transport
\* drops the sid from its rooms
disconnectEnd(sid) ==
    /\ pc[sid].at = "disconnect:44"
    /\ player_info' = Forget(player_info, sid)
    /\ rooms' = LeaveAllRooms(rooms, sid)
    /\ outbox' = << >>
    /\ pc' = [pc EXCEPT ![sid] = Idle]
    /\ last' = [op |-> "disconnect", sid |-> sid, data |-> NoData]
    /\ UNCHANGED <<conn, active_sessions, acted, inbox, clock>>

\* payloads of the step-by-step specification: one session
AsyncJoinData == [NoData EXCEPT !.sessionId = "S1", !.room = "kitchen"]

AsyncActionData ==
    [NoData EXCEPT !.sessionId = "S1", !.room = "kitchen",
                   !.action = "on", !.target = "forno"]

ConnectAsync == \E sid \in AsyncSids : connect(sid) /\ UNCHANGED <<asyncVars, apiVars>>

JoinBegin == \E sid \in AsyncSids : joinBegin(sid, AsyncJoinData) /\ UNCHANGED apiVars

JoinEnd == \E sid \in AsyncSids : joinEnd(sid) /\ UNCHANGED apiVars

ActionBegin == \E sid \in AsyncSids : actionBegin(sid, AsyncActionData) /\ UNCHANGED apiVars

ActionEnd == \E sid \in AsyncSids : actionEnd(sid) /\ UNCHANGED apiVars

DisconnectBegin == \E sid \in AsyncSids : disconnectBegin(sid) /\ UNCHANGED apiVars

DisconnectEnd == \E sid \in AsyncSids : disconnectEnd(sid) /\ UNCHANGED apiVars

NextAsync ==
    \/ ConnectAsync
    \/ JoinBegin \/ JoinEnd
    \/ ActionBegin \/ ActionEnd
    \/ DisconnectBegin \/ DisconnectEnd

SpecAsync == InitAsync /\ [][NextAsync]_vars

(***************************************************************************)
(* The HTTP endpoints of api/sessions.py.  They are plain functions, which *)
(* the framework runs on the threads of a pool, each with its own database *)
(* session: two requests overlap between one's query and its commit.       *)
(***************************************************************************)
\* SessionService.get_active_by_room: the rows the query matches (first()
\* returns one of them, or None when there is none)
get_active_by_room(gs, room_id) ==
    {i \in DOMAIN gs : gs[i].room_id = room_id /\ gs[i].end_time = None}

\* SessionService.get_active: the rows with end_time unset
get_active(gs) == {i \in DOMAIN gs : gs[i].end_time = None}

\* SessionService.create: add and commit a row; the id is the next integer
create(gs, room_id) == Append(gs, [room_id |-> room_id, end_time |-> None])

\* SessionService.end_session: set end_time of the row and commit
end_session(gs, session_id) == [gs EXCEPT ![session_id].end_time = "utcnow"]

\* requests that have passed the checks of start_session and not yet created
Creating == {w \in Workers : requests[w] # NoRequest}

\* start_session up to the call of create (sessions.py:36-44)
startCheck(w, room_id) ==
    /\ requests[w] = NoRequest
    /\ Len(game_sessions) + Cardinality(Creating) < MaxSessions
    /\ IF room_id \notin RoomRows
       THEN /\ response' = [path |-> "/start", status_code |-> 404]
            /\ UNCHANGED requests
       ELSE IF get_active_by_room(game_sessions, room_id) # {}
       THEN /\ response' = [path |-> "/start", status_code |-> 400]
            /\ UNCHANGED requests
       ELSE /\ requests' = [requests EXCEPT ![w] =
                               [at |-> "start_session:46", room_id |-> room_id]]
            /\ UNCHANGED response
    /\ UNCHANGED game_sessions

\* start_session: return session_service.create(session_data) (sessions.py:46)
startCreate(w) ==
    /\ requests[w].at = "start_session:46"
    /\ game_sessions' = create(game_sessions, requests[w].room_id)
    /\ requests' = [requests EXCEPT ![w] = NoRequest]
    /\ response' = [path |-> "/start", status_code |-> 201]

\* POST /sessions/{session_id}/end
end_specific_session(w, session_id) ==
    /\ requests[w] = NoRequest
    /\ IF session_id \in DOMAIN game_sessions
       THEN /\ game_sessions' = end_session(game_sessions, session_id)
            /\ response' = [path |-> "/{session_id}/end", status_code |-> 200]
       ELSE /\ response' = [path |-> "/{session_id}/end", status_code |-> 404]
            /\ UNCHANGED game_sessions
    /\ UNCHANGED requests

\* POST /sessions/end: ends the row get_active's first() returns, which is
\* any row with end_time unset (the query has no ORDER BY)
end_active_session(w) ==
    /\ requests[w] = NoRequest
    /\ IF get_active(game_sessions) = {}
       THEN /\ response' = [path |-> "/end", status_code |-> 404]
            /\ UNCHANGED game_sessions
       ELSE \E session_id \in get_active(game_sessions) :
               /\ game_sessions' = end_session(game_sessions, session_id)
               /\ response' = [path |-> "/end", status_code |-> 200]
    /\ UNCHANGED requests

StartCheck ==
    \E w \in Workers, room_id \in RoomIdInputs :
        startCheck(w, room_id) /\ UNCHANGED wsVars

StartCreate == \E w \in Workers : startCreate(w) /\ UNCHANGED wsVars

EndSpecific ==
    \E w \in Workers, session_id \in 1 .. MaxSessions :
        end_specific_session(w, session_id) /\ UNCHANGED wsVars

EndActive == \E w \in Workers : end_active_session(w) /\ UNCHANGED wsVars

NextSessions == StartCheck \/ StartCreate \/ EndSpecific \/ EndActive

SpecSessions == Init /\ [][NextSessions]_vars


(***************************************************************************)
(* Properties                                                              *)
(***************************************************************************)
\* the emits of an outbox that carry a given event
EmitsOf(ob, ev) == {ob[i] : i \in {j \in 1 .. Len(ob) : ob[j].event = ev}}

\* the session id the latest joinSession / playerAction payload named
LastSession == Get(last.data, "sessionId", None)

\* d has an announcement naming session S
JoinedTo(d, S) == d \in DOMAIN player_info /\ player_info[d].sessionId = S

\* d is an open member of the membership set of S
OpenMember(d, S) ==
    /\ S \in DOMAIN active_sessions
    /\ d \in active_sessions[S]
    /\ conn[d] = "open"

\* C1: the playerJoined broadcast of a Join into S and the globalStateUpdate
\* broadcast of an Action on S are never delivered to the connection that
\* triggered them, and are delivered to every other connection currently
\* joined to S.
C1_BroadcastExcludesCaller ==
    \A e \in EmitsOf(outbox, "playerJoined") \cup EmitsOf(outbox, "globalStateUpdate") :
        /\ last.sid \notin e.recipients
        /\ \A d \in Sids \ {last.sid} :
              (JoinedTo(d, LastSession) \/ OpenMember(d, LastSession))
                  => d \in e.recipients

\* C1 witness: an Action whose globalStateUpdate reached another member of
\* the session while the acting connection is itself joined to it
C1_Witness ==
    /\ last.op = "playerAction"
    /\ JoinedTo(last.sid, LastSession)
    /\ \E e \in EmitsOf(outbox, "globalStateUpdate") :
          \E d \in Sids \ {last.sid} : JoinedTo(d, LastSession) /\ d \in e.recipients

\* the reference mapping of action tokens to element states
ReferenceState(token) ==
    CASE token = "on" -> "on"
      [] token = "open" -> "aperto"
      [] token = "off" -> "off"
      [] OTHER -> "chiuso"

\* C2: the new state of an Action is "on" for token "on", "aperto" for
\* "open", "off" for "off" and "chiuso" for any other token (empty and
\* missing included), whatever the target; actionSuccess and
\* globalStateUpdate carry the same single-element delta.
C2_ActionResolver ==
    last.op = "playerAction" =>
        LET delta == (Get(last.data, "target", None) :>
                        ReferenceState(Get(last.data, "action", None)))
        IN  /\ Len(outbox) = 2
            /\ outbox[1].event = "actionSuccess"
            /\ outbox[1].data.sessionState.objectStates = delta
            /\ outbox[2].event = "globalStateUpdate"
            /\ outbox[2].data.objectStates = delta

\* C2 witness: an Action without a token on a target outside the default
\* snapshot has been resolved to "chiuso"
C2_Witness ==
    /\ last.op = "playerAction"
    /\ last.data.action = Absent
    /\ last.data.target = "porta"
    /\ outbox[2].data.objectStates["porta"] = "chiuso"

\* the sessionState emit of an outbox that holds one
SessionStateOf(ob) == CHOOSE e \in EmitsOf(ob, "sessionState") : TRUE

\* C3: the sessionState of a Join into S reflects the element states set by
\* earlier Actions on S: when a member of a named session S has just set
\* element E to V by an Action on S, the objectStates of the next Join into
\* S map E to V.
C3_JoinReflectsActions ==
    [][ (/\ last.op = "playerAction"
         /\ Truthy(LastSession)
         /\ JoinedTo(last.sid, LastSession)
         /\ last'.op = "joinSession"
         /\ Get(last'.data, "sessionId", None) = LastSession)
        => LET E == Get(last.data, "target", None)
               V == outbox[1].data.sessionState.objectStates[E]
               os == SessionStateOf(outbox').data.objectStates
           IN  E \in DOMAIN os /\ os[E] = V ]_vars

\* the default snapshot as the specification spells it
EnglishDefaults ==
    ("oven" :> "off") @@ ("fridge" :> "off") @@ ("drawer" :> "chiuso") @@
    ("gas_valve" :> "chiusa") @@ ("window" :> "chiusa")

\* the default snapshot with the element names clients match on
ItalianDefaults ==
    ("forno" :> "off") @@ ("frigo" :> "off") @@ ("cassetto" :> "chiuso") @@
    ("valvola_gas" :> "chiusa") @@ ("finestra" :> "chiusa")

\* C4 as stated: a Join before any Action sends objectStates with the keys
\* oven, fridge, drawer, gas_valve, window.
C4_DefaultsEnglish ==
    (last.op = "joinSession" /\ ~acted) =>
        /\ Cardinality(EmitsOf(outbox, "sessionState")) = 1
        /\ SessionStateOf(outbox).data.objectStates = EnglishDefaults
        /\ SessionStateOf(outbox).data.completed = << >>
        /\ SessionStateOf(outbox).data.currentPuzzle = None

\* C4 amended: every Join (in particular every Join into a session on which
\* no Action has been performed) sends a sessionState whose objectStates are
\* exactly forno: "off", frigo: "off", cassetto: "chiuso",
\* valvola_gas: "chiusa", finestra: "chiusa", with completed empty and
\* currentPuzzle absent.
C4_DefaultsItalian ==
    last.op = "joinSession" =>
        /\ Cardinality(EmitsOf(outbox, "sessionState")) = 1
        /\ SessionStateOf(outbox).data.objectStates = ItalianDefaults
        /\ SessionStateOf(outbox).data.completed = << >>
        /\ SessionStateOf(outbox).data.currentPuzzle = None

\* C4 witness: before any Action, a connection has joined a session that
\* another connection had joined already, and got the default snapshot
C4_Witness ==
    /\ last.op = "joinSession"
    /\ ~acted
    /\ \E d \in Sids \ {last.sid} : JoinedTo(d, LastSession)
    /\ SessionStateOf(outbox).data.objectStates["cassetto"] = "chiuso"
    /\ DOMAIN SessionStateOf(outbox).data.objectStates =
          {"forno", "frigo", "cassetto", "valvola_gas", "finestra"}

\* the step is a run of disconnect for c
DisconnectStep(c) == last'.op = "disconnect" /\ last'.sid = c /\ disconnect(c)

\* C5: after Disconnect of a connection C joined to session S, C is absent
\* from the membership set of S, and playerLeft is delivered to every
\* connection that was a member of S just before, except C.
C5_DisconnectLeaves ==
    [][ \A c \in Sids :
          (DisconnectStep(c) /\ c \in DOMAIN player_info)
          => LET S == player_info[c].sessionId
             IN  /\ c \notin active_sessions'[S]
                 /\ \E e \in EmitsOf(outbox', "playerLeft") :
                       /\ c \notin e.recipients
                       /\ active_sessions[S] \ {c} \subseteq e.recipients ]_vars

SessionsOf(c) == {S \in DOMAIN active_sessions : c \in active_sessions[S]}

\* C7: a connection is a member of at most one membership set, and a joined
\* connection is a member only of the session it joined last.
C7_SingleMembership ==
    \A c \in Sids :
        /\ Cardinality(SessionsOf(c)) <= 1
        /\ c \in DOMAIN player_info => SessionsOf(c) = {player_info[c].sessionId}

\* C8: the size of every membership set equals the number of connected
\* connections whose latest announcement names that session, and a
\* Disconnect of a joined connection shrinks the membership set of its
\* session by exactly one.
C8_MembershipCardinality ==
    [][ /\ \A S \in DOMAIN active_sessions' :
              Cardinality(active_sessions'[S]) =
                  Cardinality({c \in Sids : conn'[c] = "open"
                                   /\ c \in DOMAIN player_info'
                                   /\ player_info'[c].sessionId = S})
        /\ \A c \in Sids :
              (DisconnectStep(c) /\ c \in DOMAIN player_info)
              => LET S == player_info[c].sessionId
                 IN  Cardinality(active_sessions'[S]) =
                        Cardinality(active_sessions[S]) - 1 ]_vars

\* C9: the sessionState of a Join and the actionSuccess of an Action are
\* delivered to the initiating connection and to no other connection.
C9_PrivateReplies ==
    /\ last.op = "joinSession" =>
          /\ EmitsOf(outbox, "sessionState") # {}
          /\ \A e \in EmitsOf(outbox, "sessionState") : e.recipients = {last.sid}
    /\ last.op = "playerAction" =>
          /\ EmitsOf(outbox, "actionSuccess") # {}
          /\ \A e \in EmitsOf(outbox, "actionSuccess") : e.recipients = {last.sid}
    /\ last.op \notin {"joinSession", "playerAction"} =>
          EmitsOf(outbox, "sessionState") \cup EmitsOf(outbox, "actionSuccess") = {}

\* C9 witness: a connection joined a session that has another connected
\* member, and the sessionState went to the joining connection alone
C9_Witness ==
    /\ last.op = "joinSession"
    /\ \E d \in Sids \ {last.sid} : JoinedTo(d, LastSession) /\ conn[d] = "open"
    /\ SessionStateOf(outbox).recipients = {last.sid}

\* the positions of an event in an outbox
PositionsOf(ob, ev) == {i \in 1 .. Len(ob) : ob[i].event = ev}

DefaultKeys == {"forno", "frigo", "cassetto", "valvola_gas", "finestra"}

\* C13: the objectStates delivered by sessionState on a Join always have
\* exactly the default element names as keys; Actions, whatever their
\* target, neither add nor remove a key.
C13_KeysStayDefault ==
    last.op = "joinSession" =>
        \A e \in EmitsOf(outbox, "sessionState") :
            DOMAIN e.data.objectStates = DefaultKeys

\* C13 witness: after Actions on S1 whose targets are not default elements,
\* a Join into S1 got a snapshot without the acted-on key
C13_Witness ==
    /\ last.op = "joinSession"
    /\ LastSession = "S1"
    /\ acted
    /\ "porta" \notin DOMAIN SessionStateOf(outbox).data.objectStates
    /\ Cardinality(DOMAIN SessionStateOf(outbox).data.objectStates) = 5

\* the membership set of S (empty when S was never joined)
MembersOf(S) == IF S \in DOMAIN active_sessions THEN active_sessions[S] ELSE {}

\* C14: a Join overwrites the connection's announcement, other connections'
\* events leave it alone, and the playerLeft of a Disconnect carries the
\* name and room of that latest announcement and is addressed to its
\* session only, so it reaches no connection outside that session.
C14_PlayerLeftLatest ==
    [][ /\ last'.op = "joinSession" =>
              /\ last'.sid \in DOMAIN player_info'
              /\ player_info'[last'.sid] =
                    [sessionId |-> Get(last'.data, "sessionId", None),
                     room |-> Get(last'.data, "room", None),
                     playerName |-> Get(last'.data, "playerName", "Guest")]
        /\ \A c \in DOMAIN player_info :
              last'.sid # c => (c \in DOMAIN player_info' /\ player_info'[c] = player_info[c])
        /\ \A c \in Sids :
              (DisconnectStep(c) /\ c \in DOMAIN player_info)
              => /\ Len(outbox') <= 1
                 /\ \A e \in EmitsOf(outbox', "playerLeft") :
                       /\ e.data = [playerName |-> player_info[c].playerName,
                                    room |-> player_info[c].room]
                       /\ e.room = player_info[c].sessionId
                       /\ e.recipients \subseteq MembersOf(player_info[c].sessionId) ]_vars

\* C14 witness: a connection announced S1 and then S2 as "Guest" in "bagno";
\* its Disconnect emitted playerLeft {Guest, bagno} to S2 and a connection
\* joined to S1 received nothing
C14_Witness ==
    /\ last.op = "disconnect"
    /\ last.sid \in MembersOf("S1")
    /\ \E d \in Sids \ {last.sid} : JoinedTo(d, "S1")
    /\ \E e \in EmitsOf(outbox, "playerLeft") :
          /\ e.room = "S2"
          /\ e.data = [playerName |-> "Guest", room |-> "bagno"]
          /\ \A d \in Sids : JoinedTo(d, "S1") => d \notin e.recipients

\* C15: the globalStateUpdate of an Action reaches only members of the
\* session the acting connection is recorded as joined to in player_info;
\* an unannounced connection reaches nobody.
C15_ActionOnlyOwnSession ==
    last.op = "playerAction" =>
        \A e \in EmitsOf(outbox, "globalStateUpdate") :
            e.recipients \subseteq
                (IF last.sid \in DOMAIN player_info
                 THEN MembersOf(player_info[last.sid].sessionId)
                 ELSE {})

\* C16: a connection whose Disconnect has completed is a member of no
\* membership set.
C16_DisconnectedNowhere ==
    \A c \in Sids : conn[c] = "closed" => SessionsOf(c) = {}

\* the sids that were in the transport room when a room emit was made
RoomAtEmit(e) ==
    e.audience \cup (IF e.skip_sid \in Participants(rooms, e.room)
                     THEN {e.skip_sid} ELSE {})

\* C18: at every emit addressed to the transport room of a session id
\* (playerJoined, globalStateUpdate, playerLeft) the connections in that
\* room are exactly the membership set of the session.
C18_RoomEqualsMembership ==
    \A i \in 1 .. Len(outbox) :
        outbox[i].event \in {"playerJoined", "globalStateUpdate", "playerLeft"}
            => RoomAtEmit(outbox[i]) = MembersOf(outbox[i].room)

\* c's handler is suspended between its first and its last access to
\* player_info and active_sessions (disconnect: lines 30 to 44)
MidAccess(c) == pc[c].at = "disconnect:44"

\* C11: each Join, Action and Disconnect is atomic with respect to the
\* others: while a handler is between its first and its last access to the
\* registry and the membership set, no other handler runs a step that
\* reads or writes them.
C11_TransitionsAtomic ==
    [][ \A c \in AsyncSids :
          (MidAccess(c) /\ last'.sid # c)
              => (player_info' = player_info /\ active_sessions' = active_sessions)
      ]_vars

\* the numbers of the handler runs whose broadcast m received
Received(m) == {inbox[m][i].n : i \in 1 .. Len(inbox[m])}

\* m received the broadcast of run a before the broadcast of run b
Before(m, a, b) ==
    \E i, j \in 1 .. Len(inbox[m]) :
        i < j /\ inbox[m][i].n = a /\ inbox[m][j].n = b

\* C12: two members that both receive the broadcasts of two transitions
\* receive them in the same relative order, the order in which the
\* coordinator took up the triggering transitions.
C12_BroadcastOrder ==
    \A m1, m2 \in AsyncSids :
        m1 # m2 =>
            \A a, b \in Received(m1) \cap Received(m2) :
                a < b => (Before(m1, a, b) /\ Before(m2, a, b))

\* the part of C12 that the interleaving of handlers leaves intact: two
\* members never disagree on the relative order of two broadcasts
MembersAgree ==
    \A m1, m2 \in AsyncSids :
        \A a, b \in Received(m1) \cap Received(m2) :
            Before(m1, a, b) <=> Before(m2, a, b)

\* WebSocketHandler.connection_count
connection_count == Cardinality(DOMAIN player_info)

\* C17: every connection with an entry in player_info is a member of the
\* membership set of the session the entry names, and connection_count is
\* the number of connections that have joined and not yet disconnected.
C17_RegistryMatchesMembership ==
    /\ \A c \in DOMAIN player_info : c \in MembersOf(player_info[c].sessionId)
    /\ connection_count =
          Cardinality({c \in DOMAIN conn : conn[c] = "open" /\ SessionsOf(c) # {}})

\* C19: at most one game session with end_time unset exists per room at any
\* time, whatever the interleaving of concurrent start_session requests for
\* the same room.
C19_OneActivePerRoom ==
    \A r \in RoomRows :
        Cardinality(get_active_by_room(game_sessions, r)) <= 1

====
